---- MODULE Spec2Model ----
(***************************************************************************)
(* A model of the camera controller of the graphing calculator             *)
(* (src/src/camera.rs) together with the camera it drives.                 *)
(*                                                                         *)
(* Numbers.  Every f32 of the program is modelled bit-exactly as an IEEE   *)
(* binary32 value: a record [k, m, e] with k = "num" standing for the      *)
(* real m * 2^e (m odd, |m| < 2^24, or m = 0 and e = 0), k = "inf" for     *)
(* the infinity of sign m, k = "nan" for NaN.  Addition, multiplication,   *)
(* division and square root round to nearest, ties to even, overflow to    *)
(* infinity and underflow gradually, as the hardware does.  The sign of    *)
(* zero is not kept.  A u32 is a pair of 16-bit limbs [hi, lo], because    *)
(* the integers of TLC are narrower than 32 unsigned bits.                 *)
(***************************************************************************)
EXTENDS Integers, Sequences, FiniteSets, TLC

\* ------------------------------------------------------------------ bounds
MaxEvents == 3
MaxFrames == 2

\* ------------------------------------------------------- integer helpers
Abs(i) == IF i < 0 THEN -i ELSE i
Sgn(i) == IF i < 0 THEN -1 ELSE IF i > 0 THEN 1 ELSE 0
Max(a, b) == IF a >= b THEN a ELSE b
Min(a, b) == IF a <= b THEN a ELSE b
Pow2(n) == 2 ^ n


\* the number of bits of a, 0 <= a < 2^31 (without recursion)
BitLen4(a) == IF a >= 8 THEN 4 ELSE IF a >= 4 THEN 3 ELSE IF a >= 2 THEN 2 ELSE a
BitLen8(a) == IF a >= 16 THEN 4 + BitLen4(a \div 16) ELSE BitLen4(a)
BitLen16(a) == IF a >= 256 THEN 8 + BitLen8(a \div 256) ELSE BitLen8(a)
BitLen(a) == IF a >= 65536 THEN 16 + BitLen16(a \div 65536) ELSE BitLen16(a)

\* ------------------------------------------------------------ f32 values
NaN == [k |-> "nan", m |-> 0, e |-> 0]
Inf(s) == [k |-> "inf", m |-> s, e |-> 0]
Zero == [k |-> "num", m |-> 0, e |-> 0]

\* the number of trailing zero bits of a, 0 < a < 2^31
TrailingZeros(a) == CHOOSE z \in 0..30 : a % Pow2(z) = 0 /\ (a \div Pow2(z)) % 2 = 1

\* the finite value s * a * 2^e, a >= 0 exactly representable
Stripped(s, a, e, z) == [k |-> "num", m |-> s * (a \div Pow2(z)), e |-> e + z]
FNum(s, a, e) == IF a = 0 THEN Zero ELSE Stripped(s, a, e, TrailingZeros(a))

F(m, e) == FNum(Sgn(m), Abs(m), e)
Int2F(i) == F(i, 0)

IsNaN(x) == x.k = "nan"
IsInf(x) == x.k = "inf"
Order(x) == BitLen(Abs(x.m)) + x.e    \* |x| in [2^(Order-1), 2^Order)
SignOf(x) == Sgn(x.m)
\* NaN, an infinity or zero: what the arithmetic treats apart
IsSpecial(x) == x.k # "num" \/ x.m = 0

\* Rounding s * (a + t) * 2^e to binary32, where 0 <= a < 2^30 and t is 0
\* (sticky = FALSE) or some real in (0,1) (sticky = TRUE): round to nearest,
\* ties to even, least significant bit no lower than 2^-149, overflow to
\* infinity.
\* CutBits: how many low bits of a do not fit
CutBits(a, e) == Max(0, Min(Max(BitLen(a) + e - 24, -149) - e, BitLen(a) + 1))
RoundsUp(q, r, half, sticky) == r > half \/ (r = half /\ (sticky \/ q % 2 = 1))
\* a without its sh low bits, rounded
CutOff(a, sh, sticky) ==
  IF sh = 0 THEN a
  ELSE a \div Pow2(sh)
       + (IF RoundsUp(a \div Pow2(sh), a % Pow2(sh), Pow2(sh - 1), sticky) THEN 1 ELSE 0)
Packed(s, q, e) == IF q # 0 /\ BitLen(q) + e > 128 THEN Inf(s) ELSE FNum(s, q, e)
FRoundBy(s, a, e, sticky, sh) == Packed(s, CutOff(a, sh, sticky), e + sh)
FRound(s, a, e, sticky) == FRoundBy(s, a, e, sticky, CutBits(a, e))

FNeg(x) == IF IsNaN(x) THEN NaN ELSE [x EXCEPT !.m = -x.m]
FAbs(x) == IF IsNaN(x) THEN NaN ELSE [x EXCEPT !.m = Abs(x.m)]

\* x + y for finite non-zero x, y with Order(x) >= Order(y): both magnitudes
\* are aligned at the exponent eb = Order(x) - 29, A and B, and what of y lies
\* below 2^eb is kept as the sticky flag st
ShiftedDown(m, dy) ==
  IF dy <= 0 THEN m * Pow2(-dy) ELSE IF dy >= 25 THEN 0 ELSE m \div Pow2(dy)
Lost(m, dy) == dy > 0 /\ (dy >= 25 \/ m % Pow2(dy) # 0)
AddAligned(sx, same, A, B, st, eb) ==
  FRound(IF same \/ st \/ A >= B THEN sx ELSE -sx,
         IF same THEN A + B ELSE IF st THEN A - B - 1 ELSE Abs(A - B),
         eb, st)
AddAt(x, y, eb) ==
  AddAligned(Sgn(x.m), Sgn(y.m) = Sgn(x.m), Abs(x.m) * Pow2(x.e - eb),
             ShiftedDown(Abs(y.m), eb - y.e), Lost(Abs(y.m), eb - y.e), eb)
AddOrdered(x, y) == AddAt(x, y, Order(x) - 29)

\* x + y when x or y is NaN, an infinity or zero
AddSpecial(x, y) ==
  IF IsNaN(x) \/ IsNaN(y) THEN NaN
  ELSE IF IsInf(x) THEN (IF IsInf(y) /\ y.m # x.m THEN NaN ELSE x)
  ELSE IF IsInf(y) THEN y
  ELSE IF x.m = 0 THEN y
  ELSE x

FAdd(x, y) ==
  IF IsSpecial(x) \/ IsSpecial(y) THEN AddSpecial(x, y)
  ELSE IF Order(x) >= Order(y) THEN AddOrdered(x, y) ELSE AddOrdered(y, x)

FSub(x, y) == FAdd(x, FNeg(y))

\* the exact product of two 24-bit magnitudes a and b, cut to 28 bits and a
\* sticky flag: the magnitudes are multiplied in halves of 12 bits
MulCutBy(H, r, d) ==
  [a |-> H * Pow2(24 - d) + r \div Pow2(d), sh |-> d, st |-> r % Pow2(d) # 0]
MulCut(H, r) == MulCutBy(H, r, BitLen(H) - 4)
MulSum(hh, mid, ll) ==
  MulCut(hh + mid \div 4096 + ((mid % 4096) * 4096 + ll) \div 16777216,
         ((mid % 4096) * 4096 + ll) % 16777216)
MulParts(a1, a0, b1, b0) == MulSum(a1 * b1, a1 * b0 + a0 * b1, a0 * b0)
MulWide(a, b) == MulParts(a \div 4096, a % 4096, b \div 4096, b % 4096)
Product(a, b) ==
  IF BitLen(a) + BitLen(b) <= 30 THEN [a |-> a * b, sh |-> 0, st |-> FALSE]
  ELSE MulWide(a, b)
MulRound(s, e, w) == FRound(s, w.a, e + w.sh, w.st)

\* x * y when x or y is NaN, an infinity or zero
MulSpecial(x, y) ==
  IF IsNaN(x) \/ IsNaN(y) THEN NaN
  ELSE IF IsInf(x) \/ IsInf(y)
       THEN (IF x.m = 0 \/ y.m = 0 THEN NaN ELSE Inf(Sgn(x.m) * Sgn(y.m)))
  ELSE Zero

FMul(x, y) ==
  IF IsSpecial(x) \/ IsSpecial(y) THEN MulSpecial(x, y)
  ELSE MulRound(Sgn(x.m) * Sgn(y.m), x.e + y.e, Product(Abs(x.m), Abs(y.m)))

\* long division: seven further quotient bits of r / b appended to q (r < b < 2^24)
Div7(d, b) == [q |-> d.q * 128 + (d.r * 128) \div b, r |-> (d.r * 128) % b]
\* A / B to 28 bits below the point and the remainder, 2^23 <= A, B < 2^24
Quotient(A, B) == Div7(Div7(Div7(Div7([q |-> A \div B, r |-> A % B], B), B), B), B)
DivRound(s, e, d) == FRound(s, d.q, e, d.r # 0)
DivNormal(x, y, nx, ny) ==
  DivRound(Sgn(x.m) * Sgn(y.m), (x.e - (24 - nx)) - (y.e - (24 - ny)) - 28,
           Quotient(Abs(x.m) * Pow2(24 - nx), Abs(y.m) * Pow2(24 - ny)))

\* x / y when x or y is NaN, an infinity or zero
DivSpecial(x, y) ==
  IF IsNaN(x) \/ IsNaN(y) THEN NaN
  ELSE IF IsInf(x) THEN (IF IsInf(y) THEN NaN
                         ELSE Inf(x.m * (IF y.m < 0 THEN -1 ELSE 1)))
  ELSE IF IsInf(y) THEN Zero
  ELSE IF y.m = 0 THEN (IF x.m = 0 THEN NaN ELSE Inf(Sgn(x.m)))
  ELSE Zero

FDiv(x, y) ==
  IF IsSpecial(x) \/ IsSpecial(y) THEN DivSpecial(x, y)
  ELSE IF Abs(y.m) = 1 THEN FRound(Sgn(x.m) * Sgn(y.m), Abs(x.m), x.e - y.e, FALSE)
  ELSE DivNormal(x, y, BitLen(Abs(x.m)), BitLen(Abs(y.m)))

\* floor(sqrt(M)) for 2^24 <= M < 2^26: first to a multiple of 64, then exactly
ISqrtFine(M, h) ==
  CHOOSE c \in (h * 64)..(h * 64 + 63) : c * c <= M /\ M < (c + 1) * (c + 1)
ISqrt(M) ==
  ISqrtFine(M, CHOOSE c \in 64..127 :
                 (c * 64) * (c * 64) <= M /\ M < ((c + 1) * 64) * ((c + 1) * 64))

\* floor(sqrt(M * 2^26)) = a * 2^13 + b and whether the root is inexact, where
\* a = floor(sqrt(M)) and rem = M - a * a: b is the largest b with
\* b * (a * 2^14 + b) <= rem * 2^26
SqrtFits(a, rem, b) ==
  LET X == rem * 4096 - b * a
  IN IF X >= 16384 THEN TRUE ELSE IF X < 0 THEN FALSE ELSE b * b <= X * 16384
SqrtExact(X, b) == X < 16384 /\ b * b = X * 16384
SqrtPack(a, rem, b) ==
  [root |-> a * 8192 + b, inexact |-> ~SqrtExact(rem * 4096 - b * a, b)]
SqrtPick(a, rem, b0) ==
  SqrtPack(a, rem, CHOOSE c \in (b0 - 8)..b0 :
                     c >= 0 /\ SqrtFits(a, rem, c) /\ (c = b0 \/ ~SqrtFits(a, rem, c + 1)))
SqrtRem(a, rem) == SqrtPick(a, rem, Min(8191, (rem * 4096) \div a))
SqrtFrom(M, a) == SqrtRem(a, M - a * a)
SqrtWide(M) == SqrtFrom(M, ISqrt(M))

\* the even shift s that brings x.m * 2^s into [2^24, 2^26)
SqrtShift(x) == (25 - BitLen(x.m)) + ((x.e - (25 - BitLen(x.m))) % 2)
SqrtRound(e, d) == FRound(1, d.root, e, d.inexact)
SqrtBy(x, s) == SqrtRound((x.e - s - 26) \div 2, SqrtWide(x.m * Pow2(s)))

FSqrt(x) ==
  IF IsSpecial(x) \/ x.m < 0
  THEN (IF IsNaN(x) \/ x.m < 0 THEN NaN ELSE x)
  ELSE SqrtBy(x, SqrtShift(x))

\* comparisons of f32 values: every comparison with NaN is false
FEq(x, y) == ~IsNaN(x) /\ ~IsNaN(y) /\ x = y
FLt(x, y) ==
  /\ ~IsNaN(x) /\ ~IsNaN(y)
  /\ x # y
  /\ IF IsInf(x) THEN x.m < 0
     ELSE IF IsInf(y) THEN y.m > 0
     ELSE SignOf(FSub(x, y)) < 0
FGt(x, y) == FLt(y, x)
FGe(x, y) == FGt(x, y) \/ FEq(x, y)

\* f32::signum: 1.0 for a positive number or +inf, -1.0 for a negative one,
\* NaN for NaN (a zero counts as +0.0)
FSignum(x) == IF IsNaN(x) THEN NaN ELSE IF x.m < 0 THEN Int2F(-1) ELSE Int2F(1)

\* -------------------------------------------------------------- u32 values
U32(hi, lo) == [hi |-> hi, lo |-> lo]
U32_MAX == U32(65535, 65535)
None32 == [some |-> FALSE, val |-> U32(0, 0)]
Some32(v) == [some |-> TRUE, val |-> v]
U32Pow2(j) == IF j < 16 THEN U32(0, Pow2(j)) ELSE U32(Pow2(j - 16), 0)

\* `x as u32`: truncation toward zero, saturating; NaN gives 0
as_u32(x) ==
  IF IsNaN(x) THEN U32(0, 0)
  ELSE IF x.m <= 0 THEN U32(0, 0)
  ELSE IF IsInf(x) THEN U32_MAX
  ELSE IF x.e >= 0
       THEN (IF Order(x) > 32 THEN U32_MAX
             ELSE IF x.e >= 16 THEN U32(x.m * Pow2(x.e - 16), 0)
             ELSE U32(x.m \div Pow2(16 - x.e), (x.m % Pow2(16 - x.e)) * Pow2(x.e)))
  ELSE IF -x.e >= 24 THEN U32(0, 0)
  ELSE LET t == x.m \div Pow2(-x.e) IN U32(t \div 65536, t % 65536)

\* u32::checked_next_power_of_two: the smallest power of two >= n, None when
\* that power does not fit in 32 bits
checked_next_power_of_two(n) ==
  LET j == IF n.hi = 0 THEN (IF n.lo = 0 THEN 0 ELSE BitLen(n.lo - 1))
           ELSE IF n.lo = 0 THEN 16 + BitLen(n.hi - 1)
           ELSE 16 + BitLen(n.hi)
  IN IF j > 31 THEN None32 ELSE Some32(U32Pow2(j))

\* ------------------------------------------------------ vectors, matrices
\* <<v, e>>[2] (and <<v, w, e>>[3]) is the value of e, with v (and w)
\* evaluated before it: Rust evaluates the arguments of a call before the call
Vec2(x, y) == [x |-> x, y |-> y]
Vec3(x, y, z) == [x |-> x, y |-> y, z |-> z]

V3Sub(a, b) == Vec3(FSub(a.x, b.x), FSub(a.y, b.y), FSub(a.z, b.z))
V3Add(a, b) == Vec3(FAdd(a.x, b.x), FAdd(a.y, b.y), FAdd(a.z, b.z))
V3Scale(a, k) ==
  << a, k,
     Vec3(FMul(a.x, k), FMul(a.y, k), FMul(a.z, k)) >>[3]
V3Dot(a, b) == FAdd(FAdd(FMul(a.x, b.x), FMul(a.y, b.y)), FMul(a.z, b.z))
V3Cross(a, b) == Vec3(FSub(FMul(a.y, b.z), FMul(a.z, b.y)),
                      FSub(FMul(a.z, b.x), FMul(a.x, b.z)),
                      FSub(FMul(a.x, b.y), FMul(a.y, b.x)))
\* InnerSpace::magnitude and InnerSpace::normalize of cgmath
magnitude(a) ==
  << a,
     FSqrt(V3Dot(a, a)) >>[2]
normalize(a) ==
  << a,
     V3Scale(a, FDiv(Int2F(1), magnitude(a))) >>[2]

\* a 4x4 matrix is the sequence of its four columns, as in cgmath
Row(M, v, r) ==
  FAdd(FAdd(FAdd(FMul(M[1][r], v[1]), FMul(M[2][r], v[2])), FMul(M[3][r], v[3])),
       FMul(M[4][r], v[4]))
MatVec(M, v) ==
  << M, v,
     <<Row(M, v, 1), Row(M, v, 2), Row(M, v, 3), Row(M, v, 4)>> >>[3]
MatMul(A, B) ==
  << A, B,
     <<MatVec(A, B[1]), MatVec(A, B[2]), MatVec(A, B[3]), MatVec(A, B[4])>> >>[3]

One == Int2F(1)
Two == Int2F(2)
Half == F(1, -1)

\* ------------------------------------------------------------------ camera
\* OPENGL_TO_WGPU_MATRIX, in the column order of cgmath::Matrix4::new
OPENGL_TO_WGPU_MATRIX ==
  << <<One, Zero, Zero, Zero>>,
     <<Zero, One, Zero, Zero>>,
     <<Zero, Zero, Half, Half>>,
     <<Zero, Zero, Zero, One>> >>

\* the window the frames are drawn in (PhysicalSize<u32>)
size == [width |-> 512, height |-> 256]

\* the fields of Camera that State::new sets and no camera operation changes
up == Vec3(Zero, One, Zero)
aspect == FDiv(Int2F(size.width), Int2F(size.height))
fovy == Int2F(45)
znear == F(13421773, -27)      \* 0.1
zfar == Int2F(100)

\* tan(fovy / 2) for fovy = 45 degrees, the binary32 nearest to tan(0.39269909)
tan_half_fovy == F(13898701, -25)

\* cgmath::perspective(Deg(fovy), aspect, znear, zfar)
perspective_of(f, d) ==
  << f, d,
     << <<FDiv(f, aspect), Zero, Zero, Zero>>,
        <<Zero, f, Zero, Zero>>,
        <<Zero, Zero, FDiv(FAdd(zfar, znear), d), FNeg(One)>>,
        <<Zero, Zero, FDiv(FMul(FMul(Two, zfar), znear), d), Zero>> >> >>[3]
perspective == perspective_of(FDiv(One, tan_half_fovy), FSub(znear, zfar))

\* cgmath::Matrix4::look_at_rh(eye, target, up): the direction f, the side s
\* and the upward u of the view, then the matrix of the view
view_matrix(eye, f, s, u) ==
  << u,
     << <<s.x, u.x, FNeg(f.x), Zero>>,
        <<s.y, u.y, FNeg(f.y), Zero>>,
        <<s.z, u.z, FNeg(f.z), Zero>>,
        <<FNeg(V3Dot(eye, s)), FNeg(V3Dot(eye, u)), V3Dot(eye, f), One>> >> >>[2]
look_beside(eye, f, s) ==
  << s,
     view_matrix(eye, f, s, V3Cross(s, f)) >>[2]
look_to_rh(eye, f) ==
  << f,
     look_beside(eye, f, normalize(V3Cross(f, up))) >>[2]
look_at_rh(eye, target) == look_to_rh(eye, normalize(V3Sub(target, eye)))

build_proj_matrix == MatMul(OPENGL_TO_WGPU_MATRIX, perspective)

build_view_projection_matrix(cam) ==
  MatMul(build_proj_matrix, look_at_rh(cam.eye, cam.target))

\* build_proj_matrix().invert().unwrap(): the projection is block diagonal,
\* diag(a, b) and a 2x2 block in rows and columns 3..4, and so is its inverse
block_inverse(P, det) ==
  << det,
     << <<FDiv(One, P[1][1]), Zero, Zero, Zero>>,
        <<Zero, FDiv(One, P[2][2]), Zero, Zero>>,
        <<Zero, Zero, FDiv(P[4][4], det), FNeg(FDiv(P[3][4], det))>>,
        <<Zero, Zero, FNeg(FDiv(P[4][3], det)), FDiv(P[3][3], det)>> >> >>[2]
invert(P) ==
  << P,
     block_inverse(P, FSub(FMul(P[3][3], P[4][4]), FMul(P[4][3], P[3][4]))) >>[2]
proj_inverse == invert(build_proj_matrix)

calculate_screen_space_y_up(pos, sz) ==
  << pos,
     Vec2(FDiv(FMul(Int2F(sz.width), FAdd(pos.x, One)), Two),
          FDiv(FMul(Int2F(sz.height), FAdd(pos.y, One)), Two)) >>[2]
calculate_screen_space(pos, sz) ==
  << pos,
     Vec2(FDiv(FMul(Int2F(sz.width), FAdd(pos.x, One)), Two),
          FDiv(FMul(Int2F(sz.height), FSub(pos.y, One)), Int2F(-2))) >>[2]

normalise_screen_space_y_up(pos, sz) ==
  Vec2(FSub(FMul(FDiv(Two, Int2F(sz.width)), pos.x), One),
       FSub(FMul(FDiv(Two, Int2F(sz.height)), pos.y), One))
normalise_screen_space(pos, sz) ==
  Vec2(FSub(FMul(FDiv(Two, Int2F(sz.width)), pos.x), One),
       FAdd(FMul(FDiv(Int2F(-2), Int2F(sz.height)), pos.y), One))

\* world_to_screen_space: the clip position, then its perspective division
normalise_clip_space(clip_pos) ==
  << clip_pos,
     Vec2(FDiv(clip_pos[1], clip_pos[4]), FDiv(clip_pos[2], clip_pos[4])) >>[2]
world_to_screen_space(cam, pos, sz) ==
  calculate_screen_space(
    normalise_clip_space(
      MatVec(build_view_projection_matrix(cam), <<pos.x, pos.y, pos.z, One>>)),
    sz)

\* screen_to_view_space: the normalised position through the inverse of the
\* projection, times 1.5
view_pos(p) ==
  << p,
     Vec2(FMul(p[1], F(3, -1)), FMul(p[2], F(3, -1))) >>[2]
unproject(normal_pos) ==
  << normal_pos,
     view_pos(MatVec(proj_inverse, <<normal_pos.x, normal_pos.y, Zero, One>>)) >>[2]
screen_to_view_space(pos, sz) == unproject(normalise_screen_space(pos, sz))

\* adjust_pan_with_cursor_position: the distance of the cursor from the
\* origin in view space, the modifier or its sign (modnew), and the
\* translation of eye and target by distance * eye.z * modnew
translate_eye(cam, step) ==
  << step,
     [cam EXCEPT !.eye = V3Add(cam.eye, step)] >>[2]
translate(cam, step) ==
  << step,
     [cam EXCEPT !.eye = V3Add(cam.eye, step), !.target = V3Add(cam.target, step)] >>[2]
modnew(distance, modifier) ==
  IF FGe(FDiv(FAbs(modifier), Int2F(4)),
         FSqrt(FMul(FMul(FAbs(distance.x), FAbs(distance.x)),
                    FMul(FAbs(distance.y), FAbs(distance.y)))))
  THEN FSignum(modifier)
  ELSE modifier
pan_by_in_depth(cam, distance, modifier) ==
  << distance,
     translate(cam, V3Scale(Vec3(FMul(distance.x, cam.eye.z), FMul(distance.y, cam.eye.z),
                                 FMul(distance.y, cam.eye.z)),
                            modnew(distance, modifier))) >>[2]
pan_by(cam, distance, modifier) ==
  << distance,
     translate(cam, V3Scale(Vec3(FMul(distance.x, cam.eye.z), FMul(distance.y, cam.eye.z), Zero),
                            modnew(distance, modifier))) >>[2]
view_distance(cursor_view, origin_view) ==
  << cursor_view, origin_view,
     Vec2(FSub(cursor_view.x, origin_view.x), FSub(cursor_view.y, origin_view.y)) >>[3]
adjust_pan_with_cursor_position(cam, cursor_location, origin, modifier, sz) ==
  pan_by(cam,
         view_distance(screen_to_view_space(cursor_location, sz),
                       screen_to_view_space(origin, sz)),
         modifier)

\* -------------------------------------------------------- window events
\* the WindowEvent values of winit that the controller is given
KeyboardInput(state, key) == [kind |-> "KeyboardInput", state |-> state, key |-> key]
MouseWheel(unit, y) == [kind |-> "MouseWheel", unit |-> unit, y |-> y]
CursorMoved(x, y) == [kind |-> "CursorMoved", x |-> x, y |-> y]
MouseInput(state, button) == [kind |-> "MouseInput", state |-> state, button |-> button]
OtherEvent(kind) == [kind |-> kind]

ElementState == {"Pressed", "Released"}
\* PhysicalKey::Code(keycode), and "Unidentified" for PhysicalKey::Unidentified
KeyCodes == {"KeyW", "ArrowUp", "KeyS", "ArrowDown", "KeyA", "ArrowLeft",
             "KeyD", "ArrowRight", "Space", "Unidentified"}
MouseButtons == {"Left", "Right"}
\* vertical wheel deltas: notches of a wheel, pixels of a touchpad
LineDeltas == {Int2F(1), Int2F(-1)}
PixelDeltas == {Int2F(5)}
\* cursor positions: the centre of the window and two other points
Centre == Vec2(Int2F(size.width \div 2), Int2F(size.height \div 2))
CursorPositions == {Centre, Vec2(Int2F(384), Int2F(64)), Vec2(Int2F(100), Int2F(200))}
OtherKinds == {"Resized", "CloseRequested", "RedrawRequested"}

KeyEvents == {KeyboardInput(st, key) : st \in ElementState, key \in KeyCodes}
WheelEvents == {MouseWheel("LineDelta", y) : y \in LineDeltas}
                 \cup {MouseWheel("PixelDelta", y) : y \in PixelDeltas}
CursorEvents == {CursorMoved(p.x, p.y) : p \in CursorPositions}
MouseEvents == {MouseInput(st, b) : st \in ElementState, b \in MouseButtons}
OtherEvents == {OtherEvent(kd) : kd \in OtherKinds}
Events == KeyEvents \cup WheelEvents \cup CursorEvents \cup MouseEvents \cup OtherEvents

\* ------------------------------------------------------ camera controller
NoPosition == [some |-> FALSE, x |-> Zero, y |-> Zero]
SomePosition(p) == [some |-> TRUE, x |-> p.x, y |-> p.y]

\* CameraController::new(speed)
new(speed) ==
  [speed |-> speed,
   cursor_location |-> Vec2(Zero, Zero),
   mouse_clicked_at |-> NoPosition,
   is_up_pressed |-> FALSE,
   is_down_pressed |-> FALSE,
   is_left_pressed |-> FALSE,
   is_right_pressed |-> FALSE,
   is_mouse_pressed |-> FALSE,
   is_mouse_released |-> TRUE,
   scroll |-> Zero]

\* CameraController::process_events: the controller after the event and the
\* value returned, one operator for each arm of the match
keyboard_input_any_key(c, event) ==
  [controller |->
     IF event.key \in {"KeyW", "ArrowUp"}
     THEN [c EXCEPT !.is_up_pressed = event.state = "Pressed"]
     ELSE IF event.key \in {"KeyS", "ArrowDown"}
     THEN [c EXCEPT !.is_down_pressed = event.state = "Pressed"]
     ELSE IF event.key \in {"KeyA", "ArrowLeft"}
     THEN [c EXCEPT !.is_left_pressed = event.state = "Pressed"]
     ELSE IF event.key \in {"KeyD", "ArrowRight"}
     THEN [c EXCEPT !.is_right_pressed = event.state = "Pressed"]
     ELSE c,
   consumed |-> TRUE]
keyboard_input(c, event) ==
  IF event.key \in {"KeyW", "ArrowUp"}
  THEN [controller |-> [c EXCEPT !.is_up_pressed = event.state = "Pressed"],
        consumed |-> TRUE]
  ELSE IF event.key \in {"KeyS", "ArrowDown"}
  THEN [controller |-> [c EXCEPT !.is_down_pressed = event.state = "Pressed"],
        consumed |-> TRUE]
  ELSE IF event.key \in {"KeyA", "ArrowLeft"}
  THEN [controller |-> [c EXCEPT !.is_left_pressed = event.state = "Pressed"],
        consumed |-> TRUE]
  ELSE IF event.key \in {"KeyD", "ArrowRight"}
  THEN [controller |-> [c EXCEPT !.is_right_pressed = event.state = "Pressed"],
        consumed |-> TRUE]
  ELSE [controller |-> c, consumed |-> FALSE]

mouse_wheel_adds(c, event) ==
  [controller |-> [c EXCEPT !.scroll = FAdd(c.scroll, event.y)], consumed |-> TRUE]
mouse_wheel(c, event) ==
  [controller |-> [c EXCEPT !.scroll = event.y], consumed |-> TRUE]

cursor_moved(c, event) ==
  [controller |-> [c EXCEPT !.cursor_location = Vec2(event.x, event.y)],
   consumed |-> TRUE]

mouse_input_pressed_only(c, event) ==
  [controller |-> IF event.button = "Left"
                  THEN [c EXCEPT !.is_mouse_pressed = event.state = "Pressed"]
                  ELSE c,
   consumed |-> TRUE]
mouse_input(c, event) ==
  [controller |-> IF event.button = "Left"
                  THEN [c EXCEPT !.is_mouse_pressed = event.state = "Pressed",
                                 !.is_mouse_released = event.state = "Released"]
                  ELSE c,
   consumed |-> TRUE]

process_events_keys_released_late(c, event) ==
  IF event.kind = "KeyboardInput" /\ event.key # "Unidentified"
  THEN IF event.state = "Released" /\ event.key \in {"KeyW", "KeyS", "KeyA", "KeyD"}
       THEN [controller |-> c, consumed |-> TRUE]
       ELSE keyboard_input(c, event)
  ELSE IF event.kind = "MouseWheel" THEN mouse_wheel(c, event)
  ELSE IF event.kind = "CursorMoved" THEN cursor_moved(c, event)
  ELSE IF event.kind = "MouseInput" THEN mouse_input(c, event)
  ELSE [controller |-> c, consumed |-> FALSE]
process_events(c, event) ==
  IF event.kind = "KeyboardInput" /\ event.key # "Unidentified"
  THEN keyboard_input(c, event)
  ELSE IF event.kind = "MouseWheel" THEN mouse_wheel(c, event)
  ELSE IF event.kind = "CursorMoved" THEN cursor_moved(c, event)
  ELSE IF event.kind = "MouseInput" THEN mouse_input(c, event)
  ELSE [controller |-> c, consumed |-> FALSE]

\* the zoom step of update_camera (lines 220-236)
scaled_forward(c, forward) ==
  << forward,
     V3Scale(V3Scale(V3Scale(normalize(forward), magnitude(forward)), c.speed), c.scroll) >>[2]
zoom_change(c, cam) == scaled_forward(c, V3Sub(cam.target, cam.eye))

prospective(c, cam) == FAdd(cam.eye.z, zoom_change(c, cam).z)
next_power_of_two(c, cam) == checked_next_power_of_two(as_u32(prospective(c, cam)))
not_at_scroll_min_or_idle(c, cam) == FGe(c.scroll, Zero) /\ FGe(cam.eye.z, One)
not_at_scroll_min(c, cam) == FGt(c.scroll, Zero) /\ FGe(cam.eye.z, One)
not_at_scroll_max_unchecked(c, cam) == FLt(c.scroll, Zero)
not_at_scroll_max(c, cam) == FLt(c.scroll, Zero) /\ next_power_of_two(c, cam).some
zoom_allowed(c, cam) == not_at_scroll_min(c, cam) \/ not_at_scroll_max(c, cam)

\* the body of the if: cam1 is the camera with the zoom change added to eye
zoom_apply(c, cam1, sz) ==
  << cam1,
     [camera |-> adjust_pan_with_cursor_position(
                   cam1, c.cursor_location,
                   world_to_screen_space(cam1, Vec3(Zero, Zero, Zero), sz),
                   FMul(c.scroll, F(1, -2)), sz),
      controller |-> [c EXCEPT !.scroll = Zero]] >>[2]
zoom_step_moves_target(c, cam, sz) ==
  IF zoom_allowed(c, cam)
  THEN zoom_apply(c, [cam EXCEPT !.eye = V3Add(cam.eye, zoom_change(c, cam)),
                                 !.target = V3Add(cam.target, zoom_change(c, cam))], sz)
  ELSE [camera |-> cam, controller |-> c]
zoom_step(c, cam, sz) ==
  IF zoom_allowed(c, cam)
  THEN zoom_apply(c, [cam EXCEPT !.eye = V3Add(cam.eye, zoom_change(c, cam))], sz)
  ELSE [camera |-> cam, controller |-> c]

\* the drag step of update_camera (lines 238-252)
drag_pressed_from_start(c, cam, sz) ==
  IF c.is_mouse_pressed
  THEN IF ~c.mouse_clicked_at.some
       THEN [camera |-> cam,
             controller |-> [c EXCEPT !.mouse_clicked_at = SomePosition(c.cursor_location)]]
       ELSE [camera |-> adjust_pan_with_cursor_position(
                          cam, c.cursor_location,
                          Vec2(c.mouse_clicked_at.x, c.mouse_clicked_at.y),
                          Int2F(-1), sz),
             controller |-> c]
  ELSE [camera |-> cam, controller |-> c]
drag_pressed(c, cam, sz) ==
  IF c.is_mouse_pressed
  THEN IF ~c.mouse_clicked_at.some
       THEN [camera |-> cam,
             controller |-> [c EXCEPT !.mouse_clicked_at = SomePosition(c.cursor_location)]]
       ELSE [camera |-> adjust_pan_with_cursor_position(
                          cam, c.cursor_location,
                          Vec2(c.mouse_clicked_at.x, c.mouse_clicked_at.y),
                          Int2F(-1), sz),
             controller |-> [c EXCEPT !.mouse_clicked_at = SomePosition(c.cursor_location)]]
  ELSE [camera |-> cam, controller |-> c]
drag_released_when_held(c, r) ==
  << r,
     IF c.is_mouse_released /\ ~c.mouse_clicked_at.some
     THEN [r EXCEPT !.controller.mouse_clicked_at = NoPosition] ELSE r >>[2]
drag_released(c, r) ==
  << r,
     IF c.is_mouse_released THEN [r EXCEPT !.controller.mouse_clicked_at = NoPosition] ELSE r >>[2]
drag_step(c, cam, sz) == drag_released(c, drag_pressed(c, cam, sz))

\* the keyboard step of update_camera (lines 254-269)
MoveY(cam, d) == [cam EXCEPT !.eye.y = FAdd(cam.eye.y, d), !.target.y = FAdd(cam.target.y, d)]
MoveX(cam, d) == [cam EXCEPT !.eye.x = FAdd(cam.eye.x, d), !.target.x = FAdd(cam.target.x, d)]
key_up(c, cam) ==
  << cam,
     IF c.is_up_pressed THEN MoveY(cam, FMul(c.speed, cam.eye.z)) ELSE cam >>[2]
key_down(c, cam) ==
  << cam,
     IF c.is_down_pressed THEN MoveY(cam, FNeg(FMul(c.speed, cam.eye.z))) ELSE cam >>[2]
key_left_adds(c, cam) ==
  << cam,
     IF c.is_left_pressed THEN MoveX(cam, FMul(c.speed, cam.eye.z)) ELSE cam >>[2]
key_left(c, cam) ==
  << cam,
     IF c.is_left_pressed THEN MoveX(cam, FNeg(FMul(c.speed, cam.eye.z))) ELSE cam >>[2]
key_right(c, cam) ==
  << cam,
     IF c.is_right_pressed THEN MoveX(cam, FMul(c.speed, cam.eye.z)) ELSE cam >>[2]
keyboard_step(c, cam) == key_right(c, key_left(c, key_down(c, key_up(c, cam))))

\* CameraController::update_camera: the controller and the camera after the call
after_drag(g) ==
  << g,
     [controller |-> g.controller, camera |-> keyboard_step(g.controller, g.camera)] >>[2]
after_zoom(z, sz) ==
  << z,
     after_drag(drag_step(z.controller, z.camera, sz)) >>[2]
update_camera_pans_first(c, cam, sz) ==
  LET g == drag_step(c, keyboard_step(c, cam), sz)
  IN zoom_step(g.controller, g.camera, sz)
update_camera(c, cam, sz) == after_zoom(zoom_step(c, cam, sz), sz)

\* ------------------------------------------------------------ the curves
\* x.powi(n) for n >= 0, by repeated squaring
RECURSIVE powi_by(_, _, _)
powi_by(r, x, n) ==
  IF n = 0 THEN r
  ELSE powi_by(IF n % 2 = 1 THEN FMul(r, x) ELSE r,
               IF n > 1 THEN FMul(x, x) ELSE x, n \div 2)
powi(x, n) == powi_by(One, x, n)

Reverse(s) == [i \in 1..Len(s) |-> s[Len(s) + 1 - i]]

\* the sum of the terms coeff * x.powi(i), added to 0.0 one after the other;
\* the i-th coefficient of the list (from 1) goes with the power i - 1
RECURSIVE sum(_, _, _, _)
sum(acc, x, coeffs, i) ==
  IF i > Len(coeffs) THEN acc
  ELSE sum(FAdd(acc, FMul(coeffs[i], powi(x, i - 1))), x, coeffs, i + 1)
polynomial_equation_descending(x, coeffs) == sum(Zero, x, Reverse(coeffs), 1)
polynomial_equation(x, coeffs) == sum(Zero, x, coeffs, 1)
\* the polynomial_equation of eqn.rs: coeffs.iter().rev()
eqn_polynomial_equation(x, coeffs) == sum(Zero, x, Reverse(coeffs), 1)

\* i32 values, and the conversions between i32 and f32
I32_MAX == 2147483647
I32_MIN == -I32_MAX - 1
\* `x as i32`: truncation toward zero, saturating; NaN gives 0
as_i32(x) ==
  IF IsNaN(x) \/ x.m = 0 THEN 0
  ELSE IF IsInf(x) \/ Order(x) > 31 THEN (IF x.m > 0 THEN I32_MAX ELSE I32_MIN)
  ELSE IF x.e >= 0 THEN x.m * Pow2(x.e)
  ELSE IF Order(x) <= 0 THEN 0
  ELSE Sgn(x.m) * (Abs(x.m) \div Pow2(-x.e))
\* `i as f32`: the nearest f32
as_f32(i) ==
  IF i = I32_MIN THEN F(-1, 31)
  ELSE IF Abs(i) < Pow2(30) THEN FRound(Sgn(i), Abs(i), 0, FALSE)
  ELSE FRound(Sgn(i), Abs(i) \div 2, 1, Abs(i) % 2 = 1)
\* i32::abs (of i32::MIN the release build makes i32::MIN), saturating_abs,
\* saturating_add and saturating_mul by a positive unit
abs(i) == IF i = I32_MIN THEN I32_MIN ELSE Abs(i)
saturating_abs(i) == IF i = I32_MIN THEN I32_MAX ELSE Abs(i)
saturating_add(a, b) ==
  IF a > 0 /\ b > I32_MAX - a THEN I32_MAX
  ELSE IF a < 0 /\ b < I32_MIN - a THEN I32_MIN
  ELSE a + b
saturating_mul(i, unit) ==
  IF i > I32_MAX \div unit THEN I32_MAX
  ELSE IF i < -(I32_MAX \div unit) THEN I32_MIN
  ELSE i * unit
\* `x.ceil() as usize` for x >= 0 below 2^31
ceil_as_usize(x) ==
  IF IsNaN(x) \/ x.m <= 0 THEN 0
  ELSE IF x.e >= 0 THEN as_i32(x)
  ELSE as_i32(x) + 1

\* atan2, cos and sin of f32, and the products and sums of their results:
\* the terms themselves, two terms being the same value when they are the
\* same term
atan2(y, x) == [atan2 |-> <<y, x>>]
cos(t) == [cos |-> t]
sin(t) == [sin |-> t]
times(a, b) == [mul |-> <<a, b>>]
plus(a, b) == [add |-> <<a, b>>]
minus(a, b) == [sub |-> <<a, b>>]

Vertex(x, y, z) == [position |-> <<x, y, z>>]
\* square_points: the two vertices beside p1 (initial) or beside p2
beside(p, delta_x, delta_y) ==
  << Vertex(plus(p.x, delta_x), minus(p.y, delta_y), Zero),
     Vertex(minus(p.x, delta_x), plus(p.y, delta_y), Zero) >>
turned(p1, p2, theta, width, initial) ==
  beside(IF initial THEN p1 ELSE p2, times(cos(theta), width), times(sin(theta), width))
square_points(p1, p2, width, initial) ==
  turned(p1, p2, atan2(FSub(p1.x, p2.x), FSub(p1.y, p2.y)), width, initial)

\* Line: the fields of a curve that are no GPU resources
Line(coeffs, width) ==
  [width |-> width, coeffs |-> coeffs, vertices |-> <<>>, indices |-> <<>>]

\* make_polynomial: the step, the range of num and the number of its samples
unit == 20
step_size(x_min, x_max) ==
  ceil_as_usize(FDiv(as_f32(saturating_add(abs(x_max), saturating_abs(x_min))),
                     Int2F(40)))
samples_of(a, b, step) ==
  IF a >= b THEN 0
  ELSE (b \div step) - (a \div step) + (IF b % step > a % step THEN 1 ELSE 0)
samples(x_min, x_max) ==
  samples_of(saturating_mul(x_min, unit), saturating_mul(x_max, unit),
             step_size(x_min, x_max))
num_at(i, x_min, x_max) == saturating_mul(x_min, unit) + i * step_size(x_min, x_max)
\* the points p1 and p2 of the sample at num
point(x, coeffs) == << x, Vec2(x, polynomial_equation(x, coeffs)) >>[2]
p1_at(num, coeffs) == point(FDiv(as_f32(num), as_f32(unit)), coeffs)
p2_at(num, coeffs) == point(FDiv(FAdd(as_f32(num), One), as_f32(unit)), coeffs)
\* Line::next: the vertices and the indices it appends at offset
next_vertices(l, num) ==
  square_points(p1_at(num, l.coeffs), p2_at(num, l.coeffs), l.width, FALSE)
u16(i) == i % 65536
next_indices_strip(offset) ==
  << offset, u16(offset + 1), u16(offset + 2), u16(offset + 2), u16(offset + 1), u16(offset + 3) >>
next_indices(offset) ==
  << offset, u16(offset + 1), u16(offset + 3), u16(offset + 2), offset, u16(offset + 3) >>
\* what the samples from lo to hi append
RECURSIVE sample_vertices(_, _, _, _, _)
sample_vertices(l, x_min, x_max, lo, hi) ==
  IF lo > hi THEN <<>>
  ELSE IF lo = hi THEN next_vertices(l, num_at(lo, x_min, x_max))
  ELSE sample_vertices(l, x_min, x_max, lo, (lo + hi) \div 2)
       \o sample_vertices(l, x_min, x_max, (lo + hi) \div 2 + 1, hi)
RECURSIVE sample_indices(_, _)
sample_indices(lo, hi) ==
  IF lo > hi THEN <<>>
  ELSE IF lo = hi THEN next_indices(u16(u16(lo) * 2))
  ELSE sample_indices(lo, (lo + hi) \div 2) \o sample_indices((lo + hi) \div 2 + 1, hi)
first_vertices(l, x_min, x_max, n) ==
  IF n = 0 THEN <<>>
  ELSE square_points(p1_at(num_at(0, x_min, x_max), l.coeffs),
                     p2_at(num_at(0, x_min, x_max), l.coeffs), l.width, TRUE)
\* the loop of make_polynomial over n samples, appending to the line l
appended(l, x_min, x_max, n) ==
  [l EXCEPT !.vertices = l.vertices \o first_vertices(l, x_min, x_max, n)
                           \o sample_vertices(l, x_min, x_max, 0, n - 1),
            !.indices = l.indices \o sample_indices(0, n - 1)]
make_polynomial_appends(l, x_min, x_max) ==
  appended(l, x_min, x_max, samples(x_min, x_max))
make_polynomial(l, x_min, x_max) ==
  appended([l EXCEPT !.indices = <<>>, !.vertices = <<>>], x_min, x_max,
           samples(x_min, x_max))

\* EquationPipeline::update_equations: the range it passes, and the lines
\* after it; step_by(0) panics
visible_range(cam) == FMul(cam.eye.z, F(3, -1))
x_min_of(cam) == as_i32(FAdd(FNeg(visible_range(cam)), cam.eye.x))
x_max_of(cam) == as_i32(FAdd(visible_range(cam), cam.eye.x))
line_width(cam) == FMul(F(8589935, -31), cam.eye.z)
update_equations_panics(ls, cam) ==
  Len(ls) > 0 /\ step_size(x_min_of(cam), x_max_of(cam)) = 0
update_equations(ls, cam) ==
  [i \in 1..Len(ls) |->
     make_polynomial([ls[i] EXCEPT !.width = line_width(cam)],
                     x_min_of(cam), x_max_of(cam))]

\* parse_equation. A string is the tuple of its characters; a Result is
\* [ok |-> TRUE, val |-> v] or Err
Ok(v) == [ok |-> TRUE, val |-> v]
Err == [ok |-> FALSE, val |-> <<>>]
Digits == <<"0", "1", "2", "3", "4", "5", "6", "7", "8", "9">>
IsDigit(c) == \E d \in 1..10 : Digits[d] = c
\* the number written by the digits of s (any other character is skipped)
RECURSIVE digits_value(_, _, _)
digits_value(s, i, acc) ==
  IF i > Len(s) THEN acc
  ELSE digits_value(s, i + 1,
                    IF IsDigit(s[i]) THEN 10 * acc + (CHOOSE d \in 1..10 : Digits[d] = s[i]) - 1
                    ELSE acc)
\* str::parse::<u32> of a string without sign: digits, at least one, at most nine here
parse_u32(s) ==
  IF Len(s) > 0 /\ Len(s) <= 9 /\ \A i \in 1..Len(s) : IsDigit(s[i])
  THEN Ok(digits_value(s, 1, 0))
  ELSE Err
\* str::parse::<f32> of an optional sign, digits and at most one point among
\* them, with at least one and at most seven digits: the nearest f32
unsigned_f32(s, dots) ==
  FDiv(Int2F(digits_value(s, 1, 0)),
       Int2F(10 ^ (IF dots = {} THEN 0 ELSE Len(s) - (CHOOSE i \in dots : TRUE))))
parse_unsigned_f32(s) ==
  IF /\ \A i \in 1..Len(s) : IsDigit(s[i]) \/ s[i] = "."
     /\ Cardinality({i \in 1..Len(s) : s[i] = "."}) <= 1
     /\ Cardinality({i \in 1..Len(s) : IsDigit(s[i])}) \in 1..7
  THEN Ok(unsigned_f32(s, {i \in 1..Len(s) : s[i] = "."}))
  ELSE Err
negated(r) == IF r.ok THEN Ok(FNeg(r.val)) ELSE r
parse_f32(s) ==
  IF s = <<>> THEN Err
  ELSE IF s[1] = "-" THEN negated(parse_unsigned_f32(Tail(s)))
  ELSE IF s[1] = "+" THEN parse_unsigned_f32(Tail(s))
  ELSE parse_unsigned_f32(s)

\* equation.split_whitespace().collect::<String>()
without_whitespace(s) == SelectSeq(s, LAMBDA c : c # " ")
\* the matches of ([+-]?[^+-]+) in s from position i on: each run of
\* characters other than + and -, with the sign just before it if any
IsSign(c) == c = "+" \/ c = "-"
run_end(s, j) ==
  CHOOSE k \in j..Len(s) :
    /\ \A t \in j..k : ~IsSign(s[t])
    /\ k = Len(s) \/ IsSign(s[k + 1])
run_start(s, i) == IF IsSign(s[i]) THEN i + 1 ELSE i
RECURSIVE find_iter(_, _)
find_iter(s, i) ==
  IF i > Len(s) THEN <<>>
  ELSE IF run_start(s, i) <= Len(s) /\ ~IsSign(s[run_start(s, i)])
       THEN <<SubSeq(s, i, run_end(s, run_start(s, i)))>>
            \o find_iter(s, run_end(s, run_start(s, i)) + 1)
       ELSE find_iter(s, i + 1)
\* exp.split('x'): the part before the first x and the part after the last
xs(exp) == {i \in 1..Len(exp) : exp[i] = "x"}
first_part(exp) ==
  IF xs(exp) = {} THEN exp
  ELSE SubSeq(exp, 1, (CHOOSE i \in xs(exp) : \A j \in xs(exp) : i <= j) - 1)
last_part(exp) ==
  SubSeq(exp, (CHOOSE i \in xs(exp) : \A j \in xs(exp) : i >= j) + 1, Len(exp))
key_of(exp) ==
  IF xs(exp) = {} THEN Ok(0)
  ELSE IF last_part(exp) = <<>> THEN Ok(1)
  ELSE parse_u32(Tail(last_part(exp)))
val_of(exp) == IF first_part(exp) = <<>> THEN Ok(One) ELSE parse_f32(first_part(exp))
\* coeffs.get_mut(key): add val to the coefficient, or resize and push
with_term(coeffs, key, val) ==
  IF key < Len(coeffs) THEN [coeffs EXCEPT ![key + 1] = FAdd(@, val)]
  ELSE coeffs \o [i \in 1..(key - Len(coeffs)) |-> Zero] \o <<val>>
RECURSIVE parse_terms(_, _, _)
parse_terms(eqn, i, coeffs) ==
  IF i > Len(eqn) THEN Ok(coeffs)
  ELSE IF ~key_of(eqn[i]).ok \/ ~val_of(eqn[i]).ok THEN Err
  ELSE parse_terms(eqn, i + 1, with_term(coeffs, key_of(eqn[i]).val, val_of(eqn[i]).val))
parse_equation(equation) == parse_terms(find_iter(without_whitespace(equation), 1), 1, <<>>)

\* EquationPipeline::add_line and update_line: the lines after the call and
\* the value returned
add_line(ls, label, coeffs) ==
  [lines |-> Append(ls, Line(coeffs, F(13421773, -29))), ret |-> TRUE]
replaced_whatever_parsed(ls, label, parsed) ==
  IF label < Len(ls)
  THEN [lines |-> [ls EXCEPT ![label + 1].coeffs = parsed.val], ret |-> parsed.ok]
  ELSE [lines |-> ls, ret |-> FALSE]
replaced(ls, label, parsed) ==
  IF parsed.ok /\ label < Len(ls)
  THEN [lines |-> [ls EXCEPT ![label + 1].coeffs = parsed.val], ret |-> TRUE]
  ELSE [lines |-> ls, ret |-> FALSE]
update_line(ls, label, equation) == replaced(ls, label, parse_equation(equation))

\* get_instances: the instances of the vertical or of the horizontal lines
\* of the grid. A power of two as f32; next_power_of_two is 0 when it does
\* not fit u32 (release build)
pow2_as_f32(n) ==
  IF ~n.some THEN Zero ELSE IF n.val.hi = 0 THEN Int2F(n.val.lo) ELSE F(n.val.hi, 16)
base_spacing == Int2F(40)
scale_factor(cam) ==
  FDiv(base_spacing, pow2_as_f32(checked_next_power_of_two(as_u32(cam.eye.z))))
grid_offset(cam, vertical, sf) ==
  as_i32(IF vertical THEN FMul(cam.eye.x, sf) ELSE FMul(cam.eye.y, sf))
bound_l(cam, vertical, sf) == as_i32(FMul(base_spacing, Int2F(-2))) + grid_offset(cam, vertical, sf)
bound_r(cam, vertical, sf) == as_i32(FMul(base_spacing, Two)) + grid_offset(cam, vertical, sf)
\* Quaternion::from_axis_angle(axis, Deg(0.0)): cos 0 and axis * sin 0
from_axis_angle_0(axis) == [s |-> One, v |-> V3Scale(axis, Zero)]
alpha(i) == IF i = 0 THEN One ELSE IF i % 5 = 0 THEN F(11744051, -24) ELSE F(13421773, -25)
instance_at(position, i) ==
  [position |-> position,
   rotation |-> IF position = Vec3(Zero, Zero, Zero)
                THEN from_axis_angle_0(Vec3(Zero, Zero, One))
                ELSE from_axis_angle_0(normalize(position)),
   color |-> [r |-> Zero, g |-> Zero, b |-> Zero, a |-> alpha(i)]]
instance(cam, vertical, sf, i) ==
  instance_at(Vec3(IF vertical THEN FDiv(as_f32(i), sf) ELSE cam.eye.x,
                   IF ~vertical THEN FDiv(as_f32(i), sf) ELSE cam.eye.y, Zero), i)
instances_from(cam, vertical, sf, l, r) ==
  [k \in 1..(r - l) |-> instance(cam, vertical, sf, l + k - 1)]
instances_with(cam, vertical, sf) ==
  instances_from(cam, vertical, sf, bound_l(cam, vertical, sf), bound_r(cam, vertical, sf))
get_instances_unscaled(cam, vertical) == instances_with(cam, vertical, base_spacing)
get_instances(cam, vertical) == instances_with(cam, vertical, scale_factor(cam))

\* ------------------------------------------------------------ the system
\* camera, controller: the Camera and the CameraController of State
\* last: the call that returned last; ret: what process_events returned last
\* wheel: how many mouse-wheel events (counted up to 2) were processed since
\*        the last update_camera (n), the vertical delta of the last of them
\*        (y), and how many the update_camera that just returned found (seen)
\* events, frames: the numbers of events processed and of frames drawn
\* lines: the Vec<Line> of the EquationPipeline
\* input, value, calls: for the functions that are no methods of State, the
\*        arguments of the first call, the value returned by the last call
\*        and the names of the functions called, each on the value before
\*        (for the drag and the keys alone, calls holds the events
\*        processed and the frames drawn, in order)
VARIABLES camera, controller, last, ret, wheel, events, frames,
          lines, input, value, calls
vars == <<camera, controller, last, ret, wheel, events, frames,
          lines, input, value, calls>>

NoInput == [space |-> "none"]
\* no curve is registered and no function has been called
NoCalls == lines = <<>> /\ input = NoInput /\ value = NoInput /\ calls = <<>>

NoWheel == [n |-> 0, y |-> Zero, seen |-> 0]

\* State::new: the camera and the controller it builds
New ==
  /\ camera = [eye |-> Vec3(Zero, Zero, Int2F(4)), target |-> Vec3(Zero, Zero, Zero)]
  /\ controller = new(F(13421773, -27))
  /\ last = "new"
  /\ ret = FALSE
  /\ wheel = NoWheel
  /\ events = 0
  /\ frames = 0
Init == New /\ NoCalls

\* State::input: one window event handed to the controller
Processed(ev, r) ==
  /\ controller' = r.controller
  /\ ret' = r.consumed
  /\ last' = "process_events"
  /\ wheel' = IF ev.kind = "MouseWheel"
              THEN [n |-> Min(wheel.n + 1, 2), y |-> ev.y, seen |-> 0]
              ELSE [wheel EXCEPT !.seen = 0]
  /\ camera' = camera
  /\ UNCHANGED <<lines, input, value, calls>>
ProcessEvent(ev) == Processed(ev, process_events(controller, ev))

\* State::update: one frame
Updated(r) ==
  /\ controller' = r.controller
  /\ camera' = r.camera
  /\ last' = "update_camera"
  /\ wheel' = [n |-> 0, y |-> Zero, seen |-> wheel.n]
  /\ ret' = ret
  /\ UNCHANGED <<lines, input, value, calls>>
UpdateCamera == Updated(update_camera(controller, camera, size))

Input == \E ev \in Events :
           events < MaxEvents /\ ProcessEvent(ev) /\ events' = events + 1 /\ frames' = frames
Update == frames < MaxFrames /\ UpdateCamera /\ frames' = frames + 1 /\ events' = events

Next == Input \/ Update
Spec == Init /\ [][Next]_vars

\* Zooming alone, as far as it goes: the cursor rests at the centre of the
\* window and the wheel events of a touchpad come in any number, each frame
\* halving, cancelling, mirroring or doubling eye.z.
ZoomDeltas == {Int2F(5), Int2F(10), Int2F(20), Int2F(-10)}

ZoomInit ==
  /\ camera = [eye |-> Vec3(Zero, Zero, Int2F(4)), target |-> Vec3(Zero, Zero, Zero)]
  /\ controller = process_events(new(F(13421773, -27)), CursorMoved(Centre.x, Centre.y)).controller
  /\ last = "process_events"
  /\ ret = TRUE
  /\ wheel = NoWheel
  /\ events = 0
  /\ frames = 0
  /\ NoCalls

ZoomInput == \E y \in ZoomDeltas :
               ProcessEvent(MouseWheel("PixelDelta", y)) /\ UNCHANGED <<events, frames>>
ZoomUpdate == UpdateCamera /\ UNCHANGED <<events, frames>>

ZoomNext == ZoomInput \/ ZoomUpdate
SpecZoom == ZoomInit /\ [][ZoomNext]_vars

\* ------------------------------------------- the coordinate mapping alone
\* calculate_screen_space and normalise_screen_space, called one on the
\* result of the other, from a point in normalised device coordinates or a
\* pixel of the window, for windows of several sizes
MaxCalls == 2

Widths == {1, 3, 256, 512, 1920}
Heights == {1, 256, 1080}
Sizes == {[width |-> w, height |-> h] : w \in Widths, h \in Heights}
\* -1, -0.5, 0, 0.1, 1/3 and 1
NdcCoords == {Int2F(-1), F(-1, -1), Zero, F(13421773, -27), F(11184811, -25), One}
\* 0, 0.75, 37, 128, 255.5 and 256
PixelCoords == {Zero, F(3, -2), Int2F(37), Int2F(128), F(511, -1), Int2F(256)}
ScreenInputs ==
  {[space |-> "ndc", pos |-> Vec2(x, y), size |-> sz] :
     x \in NdcCoords, y \in NdcCoords, sz \in Sizes}
  \cup {[space |-> "screen", pos |-> Vec2(x, y), size |-> sz] :
          x \in PixelCoords, y \in PixelCoords, sz \in Sizes}

ScreenInit ==
  /\ New
  /\ lines = <<>>
  /\ input \in ScreenInputs
  /\ value = input.pos
  /\ calls = <<>>

Called(fn, v) ==
  /\ value' = v
  /\ calls' = Append(calls, fn)
  /\ UNCHANGED <<camera, controller, last, ret, wheel, events, frames, lines, input>>
CalculateScreenSpace ==
  /\ Len(calls) < MaxCalls
  /\ Called("calculate_screen_space", calculate_screen_space(value, input.size))
NormaliseScreenSpace ==
  /\ Len(calls) < MaxCalls
  /\ Called("normalise_screen_space", normalise_screen_space(value, input.size))

ScreenNext == CalculateScreenSpace \/ NormaliseScreenSpace
SpecScreen == ScreenInit /\ [][ScreenNext]_vars

\* -------------------------------------------------- the polynomial alone
\* polynomial_equation of geometry.rs and of eqn.rs, called once, for
\* coefficient lists of up to three coefficients and the list of the test
CoeffValues == {Int2F(-1), Zero, F(1, -1), One, Int2F(3), Int2F(4)}
CoeffLists ==
  {<<>>, <<Int2F(-1), Int2F(3), Int2F(4), One>>}
  \cup {<<a>> : a \in CoeffValues}
  \cup {<<a, b>> : a \in CoeffValues, b \in CoeffValues}
  \cup {<<a, b, c>> : a \in CoeffValues, b \in CoeffValues, c \in CoeffValues}
\* -3, -1, -0.5, 0, 0.5, 1, 2, 3, 0.1, infinity and NaN
Abscissae == {Int2F(-3), Int2F(-1), F(-1, -1), Zero, F(1, -1), One, Two, Int2F(3),
              F(13421773, -27), Inf(1), NaN}

PolyInit ==
  /\ New
  /\ lines = <<>>
  /\ input \in {[space |-> "polynomial", x |-> x, coeffs |-> cs] :
                  x \in Abscissae, cs \in CoeffLists}
  /\ value = NoInput
  /\ calls = <<>>

PolynomialEquation ==
  /\ calls = <<>>
  /\ Called("polynomial_equation", polynomial_equation(input.x, input.coeffs))
EqnPolynomialEquation ==
  /\ calls = <<>>
  /\ Called("eqn::polynomial_equation", eqn_polynomial_equation(input.x, input.coeffs))

PolyNext == PolynomialEquation \/ EqnPolynomialEquation
SpecPoly == PolyInit /\ [][PolyNext]_vars

\* ---------------------------------------------------- the lines registered
\* add_line and update_line of the EquationPipeline, for a few labels and
\* equations; calls holds the labels given to add_line, in the order of the
\* calls, and input the arguments of the last call
MaxLines == 2

Labels == {0, 1, 2}
AddedCoeffs == {<<>>, <<Zero, One>>}
\* "x", "x^2 + 1", "-x" (which does not parse) and ""
Equations == {<<"x">>, <<"x", "^", "2", " ", "+", " ", "1">>, <<"-", "x">>, <<>>}

LineCalled(fn, label, arg, r) ==
  /\ lines' = r.lines
  /\ ret' = r.ret
  /\ last' = fn
  /\ input' = [space |-> fn, label |-> label, arg |-> arg]
  /\ calls' = IF fn = "add_line" THEN Append(calls, label) ELSE calls
  /\ UNCHANGED <<camera, controller, wheel, events, frames, value>>
AddLine == \E label \in Labels, coeffs \in AddedCoeffs :
  /\ Len(lines) < MaxLines
  /\ LineCalled("add_line", label, coeffs, add_line(lines, label, coeffs))
UpdateLine == \E label \in Labels, equation \in Equations :
  /\ last # "panic"
  /\ LineCalled("update_line", label, equation, update_line(lines, label, equation))

LinesNext == AddLine \/ UpdateLine
SpecLines == Init /\ [][LinesNext]_vars

\* ------------------------------------------------------ the curve drawn
\* The program registers one line, with label 0 and no coefficients, gives
\* it the coefficients of the equation typed, and tessellates it in every
\* frame for the camera of that frame. The camera is one of a few that
\* zooming and panning lead to; frames counts the tessellations up to 2.
\* eye = (x, 0, z) for (x, z) = (0, 4), (0, 1), (5.5, 1), (100, 1),
\* (5.5, 0.25), (0, 0.25) and (100, 16)
CurveEyes == {<<Zero, Int2F(4)>>, <<Zero, One>>, <<F(11, -1), One>>, <<Int2F(100), One>>,
              <<F(11, -1), F(1, -2)>>, <<Zero, F(1, -2)>>, <<Int2F(100), Int2F(16)>>}
CurveInit ==
  /\ camera \in {[eye |-> Vec3(p[1], Zero, p[2]), target |-> Vec3(p[1], Zero, Zero)] :
                   p \in CurveEyes}
  /\ controller = new(F(13421773, -27))
  /\ last = "add_line"
  /\ ret = TRUE
  /\ wheel = NoWheel
  /\ events = 0
  /\ frames = 0
  /\ lines = add_line(<<>>, 0, <<>>).lines
  /\ input = [space |-> "add_line", label |-> 0, arg |-> <<>>]
  /\ value = NoInput
  /\ calls = <<0>>

CurveUpdateLine == \E equation \in Equations :
  /\ last # "panic"
  /\ LineCalled("update_line", 0, equation, update_line(lines, 0, equation))
UpdateEquations ==
  /\ last # "panic"
  /\ IF update_equations_panics(lines, camera)
     THEN last' = "panic" /\ UNCHANGED <<lines, frames>>
     ELSE /\ lines' = update_equations(lines, camera)
          /\ last' = "update_equations"
          /\ frames' = Min(frames + 1, 2)
  /\ UNCHANGED <<camera, controller, ret, wheel, events, input, value, calls>>

CurveNext == CurveUpdateLine \/ UpdateEquations
SpecCurve == CurveInit /\ [][CurveNext]_vars

\* ------------------------------------------------------- the grid alone
\* get_instances, called once for the vertical or the horizontal lines, for
\* a camera with eye.z one of 1, 2, 2.5, 3, 4, 4.84, 20, 32 and 2^30, eye.x one
\* of 0, 2 and -3.3, and eye.y 0 or 1
GridEyes ==
  {Vec3(x, y, z) : x \in {Zero, Two, F(-13841203, -22)}, y \in {Zero, One},
                   z \in {One, Two, F(5, -1), Int2F(3), Int2F(4), F(10150216, -21),
                          Int2F(20), Int2F(32), F(1, 30)}}
GridInit ==
  /\ camera \in {[eye |-> v, target |-> Vec3(v.x, v.y, Zero)] : v \in GridEyes}
  /\ controller = new(F(13421773, -27))
  /\ last = "new"
  /\ ret = FALSE
  /\ wheel = NoWheel
  /\ events = 0
  /\ frames = 0
  /\ lines = <<>>
  /\ input \in {[space |-> "grid", vertical |-> v] : v \in BOOLEAN}
  /\ value = NoInput
  /\ calls = <<>>

GetInstances ==
  /\ calls = <<>>
  /\ Called("get_instances", get_instances(camera, input.vertical))

SpecGrid == GridInit /\ [][GetInstances]_vars

\* ------------------------------------------------------- the drag alone
\* The left button pressed and released and the cursor moved between two
\* points, in any order with the frames; calls holds the events processed
\* and the frames drawn so far, in order.
MaxDragCalls == 5

Frame == [kind |-> "update_camera"]
DragEvents ==
  {MouseInput(st, "Left") : st \in ElementState}
    \cup {CursorMoved(p.x, p.y) : p \in {Centre, Vec2(Int2F(384), Int2F(64))}}

DragInput == \E ev \in DragEvents :
  /\ Len(calls) < MaxDragCalls
  /\ controller' = process_events(controller, ev).controller
  /\ ret' = process_events(controller, ev).consumed
  /\ last' = "process_events"
  /\ calls' = Append(calls, ev)
  /\ UNCHANGED <<camera, wheel, events, frames, lines, input, value>>
DragUpdate ==
  /\ Len(calls) < MaxDragCalls
  /\ controller' = update_camera(controller, camera, size).controller
  /\ camera' = update_camera(controller, camera, size).camera
  /\ last' = "update_camera"
  /\ calls' = Append(calls, Frame)
  /\ UNCHANGED <<ret, wheel, events, frames, lines, input, value>>

DragNext == DragInput \/ DragUpdate
SpecDrag == Init /\ [][DragNext]_vars

\* ------------------------------------------------------- the keys alone
\* Keys pressed and released in any order; calls holds the key events
\* processed so far, in order.
MaxKeyCalls == 3

KeyInput == \E ev \in KeyEvents :
  /\ Len(calls) < MaxKeyCalls
  /\ controller' = process_events(controller, ev).controller
  /\ ret' = process_events(controller, ev).consumed
  /\ last' = "process_events"
  /\ calls' = Append(calls, ev)
  /\ UNCHANGED <<camera, wheel, events, frames, lines, input, value>>

SpecKeys == Init /\ [][KeyInput]_vars

\* ------------------------------------------------------------- the claims
\* what the zoom step of the coming update_camera returns
zoomed == zoom_step(controller, camera, size)
\* what its drag step returns
AfterZoom(z) == drag_step(z.controller, z.camera, size)
dragged == AfterZoom(zoomed)
\* the anchor of the drag
anchor == Vec2(controller.mouse_clicked_at.x, controller.mouse_clicked_at.y)
NoKeys ==
  /\ ~controller.is_up_pressed /\ ~controller.is_down_pressed
  /\ ~controller.is_left_pressed /\ ~controller.is_right_pressed

\* C1: immediately after every update_camera call the scroll accumulator is
\* 0, whether or not the zoom was applied in that call
C1_ScrollZeroAfterUpdate == last = "update_camera" => controller.scroll = Zero

\* C2: in every state reachable from the initial camera, eye.z is at least 1.0
C2_EyeZAtLeastOne == FGe(camera.eye.z, One)

\* C3: a positive scroll is refused (the camera stays as it is) exactly when
\* applying it would give eye.z < 1.0, and is applied in every other case
C3_ZoomInRefusedIffBelowOne ==
  [][(last' = "update_camera" /\ FGt(controller.scroll, Zero))
       => IF FLt(prospective(controller, camera), One)
          THEN camera' = camera
          ELSE camera'.eye.z = prospective(controller, camera)]_vars

\* C4: a negative scroll is refused (the camera stays as it is) exactly when
\* the prospective eye.z, as a u32, has no next power of two; in particular
\* when the prospective eye.z exceeds the range of u32 and when it is negative
C4_ZoomOutRefusedIffNoPowerOfTwo ==
  [][(last' = "update_camera" /\ FLt(controller.scroll, Zero))
       => /\ IF next_power_of_two(controller, camera).some
             THEN camera'.eye.z = prospective(controller, camera)
             ELSE camera' = camera
          /\ FGe(prospective(controller, camera), F(1, 32)) => camera' = camera
          /\ FLt(prospective(controller, camera), Zero) => camera' = camera]_vars

\* C5: while the left button is pressed, an update_camera that finds no
\* anchor records the cursor position as the anchor and its drag step leaves
\* the camera as the zoom step left it; one that finds an anchor pans by the
\* cursor minus the anchor with the modifier -1.0 and then moves the anchor to
\* the cursor position
C5_DragAnchor ==
  [][(last' = "update_camera" /\ controller.is_mouse_pressed)
       => /\ controller'.mouse_clicked_at = SomePosition(controller.cursor_location)
          /\ camera' = keyboard_step(controller,
                         IF controller.mouse_clicked_at.some
                         THEN adjust_pan_with_cursor_position(
                                zoomed.camera, controller.cursor_location, anchor,
                                Int2F(-1), size)
                         ELSE zoomed.camera)]_vars
\* the second frame of a drag: the camera has moved from the anchor of the
\* first frame to the cursor, which is the new anchor
C5_Dragged ==
  /\ last = "update_camera" /\ frames = 2
  /\ controller.is_mouse_pressed /\ NoKeys
  /\ controller.mouse_clicked_at = SomePosition(controller.cursor_location)
  /\ camera.eye.z = Int2F(4) /\ camera.eye.x # Zero

\* C6: a mouse-wheel event overwrites the scroll value not yet consumed: after
\* wheel events the accumulator holds the last vertical delta, and the next
\* update_camera zooms by that delta only
C6_LastWheelDeltaOnly ==
  [][/\ wheel'.n > 0 => controller'.scroll = wheel'.y
     /\ (last' = "update_camera" /\ wheel.n > 0)
          => camera' = update_camera([controller EXCEPT !.scroll = wheel.y],
                                     camera, size).camera]_vars
\* an update_camera after two wheel events that zoomed by one line: eye.z is
\* 0.9 of 4.0
C6_TwoWheelsOneZoom ==
  /\ last = "update_camera" /\ wheel.seen = 2 /\ frames = 1
  /\ FLt(Int2F(3), camera.eye.z) /\ FLt(camera.eye.z, Int2F(4))

\* C7: process_events returns true for W/Up, S/Down, A/Left, D/Right pressed
\* or released, for every mouse-wheel and every cursor-moved event; false for
\* every other key and for every other kind of event but a mouse button, and
\* then the controller is unchanged
DirectionKeys ==
  {"KeyW", "ArrowUp", "KeyS", "ArrowDown", "KeyA", "ArrowLeft", "KeyD", "ArrowRight"}
C7_Consumed ==
  [][\A ev \in Events :
       (ProcessEvent(ev) /\ events' = events + 1)
         => /\ (ev.kind = "KeyboardInput" /\ ev.key \in DirectionKeys) => ret'
            /\ ev.kind \in {"MouseWheel", "CursorMoved"} => ret'
            /\ (ev.kind = "KeyboardInput" /\ ev.key \notin DirectionKeys)
                 => (~ret' /\ controller' = controller)
            /\ ev.kind \in OtherKinds => (~ret' /\ controller' = controller)]_vars
\* an event that was not consumed
C7_NotConsumed == last = "process_events" /\ ~ret /\ events > 0

\* C8: for each directional flag that is set, eye and target move by
\* speed * eye.z along its axis (up: +y, down: -y, left: -x, right: +x), and
\* not at all for a flag that is not set
Moved(v, flag, d) == IF flag THEN FAdd(v, d) ELSE v
KeyX(x, d) ==
  Moved(Moved(x, controller.is_left_pressed, FNeg(d)), controller.is_right_pressed, d)
KeyY(y, d) ==
  Moved(Moved(y, controller.is_up_pressed, d), controller.is_down_pressed, FNeg(d))
KeyPan(p, d) == Vec3(KeyX(p.x, d), KeyY(p.y, d), p.z)
KeyPanned(from, to, d) ==
  to.eye = KeyPan(from.eye, d) /\ to.target = KeyPan(from.target, d)
KeyPannedFrom(from, to) == KeyPanned(from, to, FMul(controller.speed, from.eye.z))
C8_KeyboardPan ==
  [][last' = "update_camera" => KeyPannedFrom(dragged.camera, camera')]_vars
\* the first frame with up and left held: one step up and one step left
C8_UpLeft ==
  /\ last = "update_camera" /\ frames = 1
  /\ controller.is_up_pressed /\ controller.is_left_pressed
  /\ camera.eye = Vec3(FNeg(FMul(controller.speed, Int2F(4))),
                       FMul(controller.speed, Int2F(4)), Int2F(4))

\* C9: in one update_camera the zoom step comes first, from the cursor
\* position and the camera the call was given, and the drag step and then the
\* keyboard step start from the camera the zoom step left
ZoomDragKeys(g, c, cam) == cam = keyboard_step(controller, g.camera) /\ c = g.controller
C9_ZoomBeforePans ==
  [][last' = "update_camera" => ZoomDragKeys(dragged, controller', camera')]_vars
\* a frame that zoomed in by one line and stepped up: the step is
\* speed * eye.z of the eye.z after the zoom
C9_ZoomedAndPanned ==
  /\ last = "update_camera" /\ frames = 1
  /\ controller.is_up_pressed /\ ~controller.is_down_pressed
  /\ controller.cursor_location = Centre
  /\ FLt(camera.eye.z, Int2F(4))
  /\ camera.eye.y = FMul(controller.speed, camera.eye.z)

\* C10: in every reachable state eye and target have the same x and the same
\* y (the same binary32 value; when one is NaN so is the other)
C10_SameXY == camera.eye.x = camera.target.x /\ camera.eye.y = camera.target.y
\* a camera that was zoomed about a cursor off the centre, dragged and
\* stepped up
C10_MovedCamera ==
  /\ last = "update_camera" /\ frames = 2
  /\ controller.is_mouse_pressed /\ controller.is_up_pressed
  /\ camera.eye.z # Int2F(4) /\ camera.eye.x # Zero /\ camera.eye.y # Zero

\* C11: after an update_camera call in which a zoom is applied, the world
\* point that was under the cursor before the zoom is still under the cursor.
\* The point looked at is the camera's target; when it is under the cursor
\* and the next update_camera applies a zoom, it is still under the cursor
\* after the zoom step of that call.
C11_CursorAnchored ==
  (zoom_allowed(controller, camera)
     /\ world_to_screen_space(camera, camera.target, size) = controller.cursor_location)
  => world_to_screen_space(zoomed.camera, camera.target, size) = controller.cursor_location

\* C20 as stated: when update_camera applies a zoom, the zoom delta is added
\* to both eye and target, so the eye-to-target vector is the same before and
\* after the zoom step.
C20_ZoomMovesEyeAndTarget ==
  zoom_allowed(controller, camera)
  => /\ zoomed.camera.target.z = FAdd(camera.target.z, zoom_change(controller, camera).z)
     /\ V3Sub(zoomed.camera.target, zoomed.camera.eye) = V3Sub(camera.target, camera.eye)

\* C20, amended: when update_camera applies a zoom, the zoom delta is added
\* to eye only and target is left where it is (the eye-to-target vector
\* changes by the delta), before the re-anchoring pan is computed: with no
\* drag and no key the camera after the call is the camera with the moved
\* eye, panned about the cursor.
Advanced(cam, change) == [cam EXCEPT !.eye = V3Add(cam.eye, change)]
Reanchored(c, cam1) ==
  adjust_pan_with_cursor_position(
    cam1, c.cursor_location,
    world_to_screen_space(cam1, Vec3(Zero, Zero, Zero), size),
    FMul(c.scroll, F(1, -2)), size)
C20_ZoomMovesEyeOnly ==
  [][(last' = "update_camera" /\ zoom_allowed(controller, camera))
     => /\ camera'.eye.z = FAdd(camera.eye.z, zoom_change(controller, camera).z)
        /\ camera'.target.z = camera.target.z
        /\ (NoKeys /\ ~controller.is_mouse_pressed)
           => camera' = Reanchored(controller,
                                   Advanced(camera, zoom_change(controller, camera)))]_vars
\* an update_camera call has applied a zoom to the initial camera
C20_Zoomed ==
  /\ last = "update_camera" /\ frames = 1
  /\ camera.eye.z # Int2F(4) /\ camera.target.z = Zero

\* C17: for every viewport size (w,h), calculate_screen_space maps the NDC
\* centre (0,0) to pixel (w/2, h/2), the NDC corner (1,-1) to (w,h) and the
\* NDC corner (-1,1) to (0,0)
C17_CentreAndCorners ==
  (input.space = "ndc" /\ calls = <<"calculate_screen_space">>)
  => /\ input.pos = Vec2(Zero, Zero)
          => value = Vec2(F(input.size.width, -1), F(input.size.height, -1))
     /\ input.pos = Vec2(One, Int2F(-1))
          => value = Vec2(Int2F(input.size.width), Int2F(input.size.height))
     /\ input.pos = Vec2(Int2F(-1), One)
          => value = Vec2(Zero, Zero)
\* the corner (1,-1) of a 1920x1080 window has been mapped to the pixel
\* (1920, 1080)
C17_CornerMapped ==
  /\ calls = <<"calculate_screen_space">>
  /\ input = [space |-> "ndc", pos |-> Vec2(One, Int2F(-1)),
              size |-> [width |-> 1920, height |-> 1080]]
  /\ value = Vec2(Int2F(1920), Int2F(1080))

\* C18 as stated: for every viewport size and every point p in NDC,
\* normalise_screen_space(calculate_screen_space(p)) = p, and for every pixel
\* point s, calculate_screen_space(normalise_screen_space(s)) = s
ThereAndBack == <<"calculate_screen_space", "normalise_screen_space">>
BackAndThere == <<"normalise_screen_space", "calculate_screen_space">>
C18_ExactInverses ==
  /\ (input.space = "ndc" /\ calls = ThereAndBack) => value = input.pos
  /\ (input.space = "screen" /\ calls = BackAndThere) => value = input.pos

\* C18, amended: the two are inverses up to the rounding of f32: the NDC
\* point comes back within 2^-21 in each coordinate, and a pixel point of
\* the window (0 <= s.x <= w, 0 <= s.y <= h) within w * 2^-21 and h * 2^-21
Within(a, b, tol) == FGe(tol, FAbs(FSub(a, b)))
InWindow(s, sz) ==
  /\ FGe(s.x, Zero) /\ FGe(Int2F(sz.width), s.x)
  /\ FGe(s.y, Zero) /\ FGe(Int2F(sz.height), s.y)
C18_InversesUpToRounding ==
  /\ (input.space = "ndc" /\ calls = ThereAndBack)
       => /\ Within(value.x, input.pos.x, F(1, -21))
          /\ Within(value.y, input.pos.y, F(1, -21))
  /\ (input.space = "screen" /\ calls = BackAndThere /\ InWindow(input.pos, input.size))
       => /\ Within(value.x, input.pos.x, F(input.size.width, -21))
          /\ Within(value.y, input.pos.y, F(input.size.height, -21))
\* a point has gone to the screen of a 3 pixels wide window and back, and
\* has come back changed
C18_RoundedTrip ==
  /\ input.space = "ndc" /\ calls = ThereAndBack
  /\ input.size.width = 3
  /\ value # input.pos

\* C13: polynomial_equation(x, coeffs) of geometry.rs returns the sum over i
\* of coeffs[i] * x^i (index = power of x, ascending) and 0 for an empty
\* list, for every x; x = 2 with [-1,3,4,1] gives 29 and with [0,1] gives 2;
\* the variant of eqn.rs returns the same value for the reversed list.
\* The sum is computed in integers, in sixteenths, for the x and the
\* coefficients that are whole halves (every f32 operation is exact then).
Halves(f) == f.m * Pow2(f.e + 1)
InHalves(f) == f.k = "num" /\ f.e >= -1
RECURSIVE IntPow(_, _)
IntPow(a, n) == IF n = 0 THEN 1 ELSE a * IntPow(a, n - 1)
RECURSIVE Sixteenths(_, _, _)
Sixteenths(x, coeffs, i) ==
  IF i > Len(coeffs) THEN 0
  ELSE Halves(coeffs[i]) * IntPow(Halves(x), i - 1) * Pow2(4 - i)
       + Sixteenths(x, coeffs, i + 1)
C13_SumOfPowers ==
  /\ calls = <<"polynomial_equation">>
       => /\ InHalves(input.x) => value = F(Sixteenths(input.x, input.coeffs, 1), -4)
          /\ input.coeffs = <<>> => value = Zero
          /\ (input.x = Two /\ input.coeffs = <<Int2F(-1), Int2F(3), Int2F(4), One>>)
               => value = Int2F(29)
          /\ (input.x = Two /\ input.coeffs = <<Zero, One>>) => value = Two
          /\ value = eqn_polynomial_equation(input.x, Reverse(input.coeffs))
  /\ calls = <<"eqn::polynomial_equation">>
       => value = polynomial_equation(input.x, Reverse(input.coeffs))
\* polynomial_equation has been called with x = 2 and [-1,3,4,1] and has
\* returned 29
C13_TwentyNine ==
  /\ calls = <<"polynomial_equation">>
  /\ input.x = Two /\ input.coeffs = <<Int2F(-1), Int2F(3), Int2F(4), One>>
  /\ value = Int2F(29)

\* the values of num that the loop of make_polynomial visits for the range
\* passed by update_equations, and the number of segments of a line
Visited(a, b, step) == {num \in a..(b - 1) : (num - a) % step = 0}
VisitedFor(cam) ==
  Visited(x_min_of(cam) * unit, x_max_of(cam) * unit,
          step_size(x_min_of(cam), x_max_of(cam)))
Quad(i) == <<2 * i, 2 * i + 1, 2 * i + 3, 2 * i + 2, 2 * i, 2 * i + 3>>

\* C12: after make_polynomial that visits n >= 1 samples the line has
\* exactly 2 + 2n vertices and 6n indices, the indices of sample i are
\* (2i, 2i+1, 2i+3, 2i+2, 2i, 2i+3), every index is smaller than the vertex
\* count and every vertex has z = 0; with n = 0 both lists are empty
MeshOf(l, n) ==
  /\ Len(l.vertices) = IF n = 0 THEN 0 ELSE 2 + 2 * n
  /\ Len(l.indices) = 6 * n
  /\ \A i \in 0..(n - 1) : SubSeq(l.indices, 6 * i + 1, 6 * i + 6) = Quad(i)
  /\ \A k \in 1..Len(l.indices) : l.indices[k] < Len(l.vertices)
  /\ \A k \in 1..Len(l.vertices) : l.vertices[k].position[3] = Zero
C12_MeshShape ==
  last = "update_equations"
  => \A i \in 1..Len(lines) : MeshOf(lines[i], Cardinality(VisitedFor(camera)))
\* the curve of x^2 + 1 has been tessellated for the initial camera, in 240
\* samples
C12_Tessellated ==
  /\ last = "update_equations"
  /\ camera.eye.z = Int2F(4)
  /\ lines[1].coeffs = <<One, Zero, One>>
  /\ Len(lines[1].vertices) = 482 /\ Len(lines[1].indices) = 1440

\* C14: make_polynomial is a full rebuild: the vertices and indices it
\* leaves depend only on the coefficients, the width and (x_min, x_max),
\* never on the mesh of a previous call (they are those of a line that had
\* no mesh before), and a second call with the same inputs leaves the mesh
\* of the first
Rebuilt(l, cam) ==
  make_polynomial(Line(l.coeffs, line_width(cam)), x_min_of(cam), x_max_of(cam))
C14_FullRebuild ==
  [][last' = "update_equations"
     => /\ \A i \in 1..Len(lines) : lines'[i] = Rebuilt(lines[i], camera)
        /\ last = "update_equations" => lines' = lines]_vars
\* the second tessellation, of a line that had a mesh of other coefficients
C14_RebuiltTwice ==
  /\ last = "update_equations" /\ frames = 2
  /\ input.space = "update_line" /\ input.arg = <<"x">> /\ ret
  /\ Len(lines[1].vertices) > 0

\* C15: for the x-ranges that update_equations passes to make_polynomial
\* the number of segments emitted stays approximately 40 (here: from 20 to
\* 80) regardless of zoom level and of pan position
Segments(l) == Len(l.indices) \div 6
C15_AboutFortySegments ==
  last = "update_equations"
  => \A i \in 1..Len(lines) : Segments(lines[i]) >= 20 /\ Segments(lines[i]) <= 80

\* C16: update_line(label, equation) replaces the coefficient list of the
\* curve that was registered under that same label by add_line (here: by
\* exactly one add_line), for any sequence of add_line calls with any
\* labels, and leaves vertices and indices unchanged
RegisteredOnce(label) == Cardinality({i \in 1..Len(calls) : calls[i] = label}) = 1
C16_UpdatesTheLabelled ==
  [][last' = "update_line"
     => /\ (RegisteredOnce(input'.label) /\ parse_equation(input'.arg).ok)
           => \A i \in 1..Len(calls) :
                calls[i] = input'.label
                => lines'[i].coeffs = parse_equation(input'.arg).val
        /\ \A i \in 1..Len(lines) :
             /\ lines'[i].vertices = lines[i].vertices
             /\ lines'[i].indices = lines[i].indices]_vars

\* the camera with eye.z doubled, and whether the instances there have the
\* varying coordinate of the instances here doubled, position by position
Doubled(cam) == [cam EXCEPT !.eye.z = FMul(cam.eye.z, Two)]
Varying(inst, vertical) == IF vertical THEN inst.position.x ELSE inst.position.y
DoubleOf(there, here, vertical) ==
  /\ Len(there) = Len(here)
  /\ \A k \in 1..Len(here) :
       Varying(there[k], vertical) = FMul(Varying(here[k], vertical), Two)

\* C19 as stated: for any camera, doubling eye.z while holding eye.x and
\* eye.y fixed makes get_instances return, position by position, instances
\* whose varying coordinate is exactly double that of the original camera
C19_DoublingAnyCamera ==
  calls = <<"get_instances">>
  => DoubleOf(get_instances(Doubled(camera), input.vertical), value, input.vertical)

\* C19, amended: so it is for any camera whose eye.z is a whole number from
\* 1 to 2^30 and whose eye is at 0 on the varying axis (eye.x = 0 for the
\* vertical lines, eye.y = 0 for the horizontal ones)
Whole(x) == x.k = "num" /\ x.m >= 1 /\ x.e >= 0 /\ (Order(x) <= 30 \/ x = F(1, 30))
C19_DoublingWholeZoomAtOrigin ==
  (/\ calls = <<"get_instances">>
   /\ Whole(camera.eye.z)
   /\ (IF input.vertical THEN camera.eye.x ELSE camera.eye.y) = Zero)
  => DoubleOf(get_instances(Doubled(camera), input.vertical), value, input.vertical)
\* the vertical lines for eye = (0, 1, 20): 160 instances, from x = -64
C19_GridAtTwenty ==
  /\ calls = <<"get_instances">> /\ input.vertical
  /\ camera.eye = Vec3(Zero, One, Int2F(20))
  /\ Len(value) = 160
  /\ value[1].position = Vec3(Int2F(-64), One, Zero)

\* a release of the left button was processed after the last update_camera
\* (the only place where an anchor is recorded), so that an anchor held now
\* was recorded before that release
IsRelease(ev) == ev.kind = "MouseInput" /\ ev.button = "Left" /\ ev.state = "Released"
ReleasedSinceUpdate ==
  \E i \in 1..Len(calls) :
    IsRelease(calls[i]) /\ \A j \in i..Len(calls) : calls[j] # Frame

\* C21: a drag anchor never survives a left-button release: once a release
\* has been processed, no later drag-pan step uses an anchor that was
\* recorded before that release (the drag step of update_camera pans from
\* the anchor when the button is pressed and an anchor is held)
C21_NoAnchorAcrossRelease ==
  [][(last' = "update_camera" /\ ReleasedSinceUpdate)
       => ~(controller.is_mouse_pressed /\ controller.mouse_clicked_at.some)]_vars

\* the x of the sample point that the vertex pair starting at v lies beside,
\* and the x1 of sample k (from 0) for the range passed by update_equations
CentreX(v) == v.position[1].add[1]
X1Of(k, cam) == FDiv(as_f32(num_at(k, x_min_of(cam), x_max_of(cam))), as_f32(unit))

\* C22: each segment built by make_polynomial spans a consecutive pair of
\* sample x-values: the x2 of sample k, on which the vertex pair that sample
\* k appends is centred, equals the x1 of sample k+1, for every step size
C22_SegmentsSpanConsecutiveSamples ==
  last = "update_equations"
  => \A i \in 1..Len(lines) :
       \A k \in 0..(Segments(lines[i]) - 2) :
         CentreX(lines[i].vertices[2 * k + 3]) = X1Of(k + 1, camera)

\* the coefficients of every line are as they were
SameCoeffs(before, after) ==
  /\ Len(after) = Len(before)
  /\ \A i \in 1..Len(before) : after[i].coeffs = before[i].coeffs
\* the line at position label (from 0) has the coefficients coeffs and every
\* other line is as it was
OneReplaced(before, after, label, coeffs) ==
  /\ label < Len(before)
  /\ Len(after) = Len(before)
  /\ after[label + 1].coeffs = coeffs
  /\ \A i \in 1..Len(before) : i # label + 1 => after[i] = before[i]
Failed(label, parsed) == ~parsed.ok \/ label >= Len(lines)

\* C23: update_line returns false and leaves the coefficients of every line
\* unchanged when the equation fails to parse (as "-x" does) or when the Vec
\* of lines has no line at the given label; it returns true only when it has
\* replaced the coefficients of exactly one line, the one at that label, by
\* the coefficients parsed; and it never adds or removes a line
C23_UpdateLineFailsCleanly ==
  [][last' = "update_line"
     => /\ Len(lines') = Len(lines)
        /\ Failed(input'.label, parse_equation(input'.arg))
             => (~ret' /\ SameCoeffs(lines, lines'))
        /\ input'.arg = <<"-", "x">> => (~ret' /\ lines' = lines)
        /\ ret' => /\ parse_equation(input'.arg).ok
                   /\ OneReplaced(lines, lines', input'.label,
                                  parse_equation(input'.arg).val)]_vars
\* "-x" was refused for a line that exists and keeps its coefficients
C23_RefusedEquation ==
  /\ last = "update_line" /\ ~ret
  /\ input.arg = <<"-", "x">>
  /\ input.label < Len(lines)
  /\ lines[input.label + 1].coeffs = <<Zero, One>>

\* C24: for every camera reachable from the initial camera by events and
\* update_camera calls, the step size that make_polynomial computes from the
\* (x_min, x_max) passed by update_equations is at least 1 (step_by is never
\* called with 0)
C24_StepSizeAtLeastOne == step_size(x_min_of(camera), x_max_of(camera)) >= 1

\* C25: in every reachable controller state exactly one of is_mouse_pressed
\* and is_mouse_released is true
C25_PressedXorReleased == controller.is_mouse_pressed # controller.is_mouse_released
\* the left button is held, after a press, a release and a press
C25_PressedAgain ==
  /\ last = "process_events" /\ events = 3
  /\ controller.is_mouse_pressed /\ ~controller.is_mouse_released

\* C26: immediately after every update_camera call the drag anchor
\* (mouse_clicked_at) is present exactly when the left button is pressed, and
\* when present it equals the current cursor position
C26_AnchorIffPressed ==
  last = "update_camera"
  => /\ controller.mouse_clicked_at.some <=> controller.is_mouse_pressed
     /\ controller.mouse_clicked_at.some
          => controller.mouse_clicked_at = SomePosition(controller.cursor_location)
\* the frame after the release that ended a drag: the anchor of the drag,
\* recorded by the frame before, is gone
C26_AnchorDropped ==
  /\ calls = <<MouseInput("Pressed", "Left"), Frame, MouseInput("Released", "Left"), Frame>>
  /\ last = "update_camera"
  /\ ~controller.is_mouse_pressed /\ ~controller.mouse_clicked_at.some

\* the state of the most recent of the key events processed whose key is one
\* of keys: pressed or not, and not pressed when there was none
KeyEventsOf(keys) == {i \in 1..Len(calls) : calls[i].key \in keys}
Latest(idx) == CHOOSE i \in idx : \A j \in idx : j <= i
LastPressed(idx) == idx # {} /\ calls[Latest(idx)].state = "Pressed"
Held(keys) == LastPressed(KeyEventsOf(keys))

\* C27: each directional flag equals the pressed/released state of the most
\* recent key event among its two bound keys (W/ArrowUp, S/ArrowDown,
\* A/ArrowLeft, D/ArrowRight): releasing one of the two keys clears the flag
\* even while the other key of the pair is still held, and events for other
\* keys never change it
C27_FlagIsLatestKeyEvent ==
  /\ controller.is_up_pressed = Held({"KeyW", "ArrowUp"})
  /\ controller.is_down_pressed = Held({"KeyS", "ArrowDown"})
  /\ controller.is_left_pressed = Held({"KeyA", "ArrowLeft"})
  /\ controller.is_right_pressed = Held({"KeyD", "ArrowRight"})
\* W and ArrowUp are pressed and W is released: the flag is clear although
\* ArrowUp is still held
C27_ClearedWhileHeld ==
  /\ calls = <<KeyboardInput("Pressed", "KeyW"), KeyboardInput("Pressed", "ArrowUp"),
               KeyboardInput("Released", "KeyW")>>
  /\ ~controller.is_up_pressed

\* C28: in every camera state reachable from the initial camera by events
\* and update_camera calls, eye.z truncated to u32 is at most 2^31 and so has
\* a next power of two in u32: next_power_of_two in get_instances never
\* overflows
C28_GridPowerOfTwoDefined ==
  /\ checked_next_power_of_two(as_u32(camera.eye.z)).some
  /\ IsNaN(camera.eye.z) \/ FLt(camera.eye.z, F(1, 31)) \/ camera.eye.z = F(1, 31)
\* the camera zoomed out as far as it goes: eye.z = 2^31, and one more
\* doubling is refused
C28_ZoomedOutFully ==
  /\ last = "update_camera"
  /\ camera.eye.z = F(1, 31)
  /\ FLt(controller.scroll, Zero)

\* the eye.z that the zoom step of the coming update_camera leaves: with the
\* zoom change added when the zoom is applied, as it is when not
ZoomedEyeZ ==
  IF zoom_allowed(controller, camera)
  THEN FAdd(camera.eye.z, zoom_change(controller, camera).z)
  ELSE camera.eye.z

\* C29: eye.z is changed only by the zoom step of update_camera (by adding
\* the zoom change to eye): process_events, the re-anchoring pan, the drag
\* pan and the keyboard pan all leave eye.z unchanged
C29_OnlyZoomChangesEyeZ ==
  [][/\ last' = "process_events" => camera'.eye.z = camera.eye.z
     /\ last' = "update_camera"
          => /\ zoomed.camera.eye.z = ZoomedEyeZ
             /\ dragged.camera.eye.z = ZoomedEyeZ
             /\ camera'.eye.z = ZoomedEyeZ]_vars
\* a frame that panned with the drag, to the right and down, and with the
\* key W: eye.z is the 4.0 of the initial camera
C29_PannedAtSameDepth ==
  /\ last = "update_camera" /\ frames = 2
  /\ controller.is_mouse_pressed /\ controller.is_up_pressed
  /\ controller.mouse_clicked_at = SomePosition(Vec2(Int2F(384), Int2F(64)))
  /\ camera.eye.z = Int2F(4)
  /\ FLt(camera.eye.x, Zero)

\* the controller asks for nothing: no scroll, no button, no key
Idle ==
  /\ controller.scroll = Zero
  /\ ~controller.is_mouse_pressed
  /\ NoKeys

\* C30: an idle frame is a no-op on the camera: update_camera called with
\* scroll = 0, the left button not pressed and no directional flag set
\* leaves eye and target unchanged, however many times it is called (it
\* leaves the controller idle)
C30_IdleFrameIsNoOp ==
  [][(last' = "update_camera" /\ Idle)
       => (camera' = camera /\ Idle')]_vars
\* an idle frame after a frame that zoomed: one wheel event, a frame that
\* found it and a frame that found none, and the camera is the zoomed one
C30_IdleAfterZoom ==
  /\ last = "update_camera" /\ frames = 2 /\ events = 1
  /\ wheel.seen = 0
  /\ Idle
  /\ camera.eye.z = FAdd(Int2F(4), FMul(FMul(Int2F(4), controller.speed), Int2F(-1)))

====
